---- MODULE Spec2Model ----
(***************************************************************************)
(* Model of controllers/userControllers/userBookingControllers.go: the     *)
(* slot generation of a doctor's availability window and the booking       *)
(* handler BookAppointment with its validation pipeline, over a store of   *)
(* availabilities, patients, doctors, appointments and invoices.           *)
(*                                                                         *)
(* Go strings are sequences of one-character strings, so that Split,       *)
(* TrimSpace, time.Parse and Format are computed character by character.   *)
(* A time.Time is the number of minutes since Jan 1 of year 0, 00:00 UTC,  *)
(* the instant time.Parse("15:04", "00:00") returns.                       *)
(***************************************************************************)
EXTENDS Integers, Sequences, FiniteSets, TLC

\* ------------------------------------------------------------------ bounds

\* At most this many Appointment rows are ever created.
MaxAppointments == 2
\* Clock ticks per calendar day.
TicksPerDay == 2

\* ------------------------------------------------------- strings and times

Digits == <<"0", "1", "2", "3", "4", "5", "6", "7", "8", "9">>

isDigit(s, i) == i <= Len(s) /\ \E d \in 1..10 : Digits[d] = s[i]

DigitVal(c) == (CHOOSE d \in 1..10 : Digits[d] = c) - 1

\* strings.Split(s, "-"): the parts of s between every two separators.
RECURSIVE Split(_)
Split(s) ==
    IF \E i \in 1..Len(s) : s[i] = "-"
    THEN LET i == CHOOSE k \in 1..Len(s) :
                     s[k] = "-" /\ \A j \in 1..(k - 1) : s[j] # "-"
         IN  <<SubSeq(s, 1, i - 1)>> \o Split(SubSeq(s, i + 1, Len(s)))
    ELSE <<s>>

\* strings.TrimSpace(s): s without its leading and trailing white space.
RECURSIVE TrimSpace(_)
TrimSpace(s) ==
    IF s = <<>> THEN s
    ELSE IF s[1] = " " THEN TrimSpace(Tail(s))
    ELSE IF s[Len(s)] = " " THEN TrimSpace(SubSeq(s, 1, Len(s) - 1))
    ELSE s

\* The zero time.Time, Jan 1 of year 1, which time.Parse returns with an
\* error: year 0 is a leap year, so it lies 366 days after the instant 0.
ZeroTime == 366 * 24 * 60

\* getnum of package time: the leading number of s, of one or two digits
\* (exactly two when fixed), and the rest of s.
getnum(s, fixed) ==
    IF ~isDigit(s, 1) THEN [ok |-> FALSE, n |-> 0, rest |-> s]
    ELSE IF ~isDigit(s, 2)
         THEN IF fixed THEN [ok |-> FALSE, n |-> 0, rest |-> s]
              ELSE [ok |-> TRUE, n |-> DigitVal(s[1]), rest |-> Tail(s)]
    ELSE [ok |-> TRUE, n |-> DigitVal(s[1]) * 10 + DigitVal(s[2]),
          rest |-> SubSeq(s, 3, Len(s))]

\* time.Parse("15:04", value): hour of one or two digits below 24, ":",
\* minute of two digits below 60, and nothing after it.
timeParse(value) ==
    LET h == getnum(value, FALSE)
        m == getnum(Tail(h.rest), TRUE)
        good == /\ h.ok /\ h.n < 24
                /\ h.rest # <<>> /\ h.rest[1] = ":"
                /\ m.ok /\ m.n < 60
                /\ m.rest = <<>>
    IN  IF good THEN [err |-> FALSE, t |-> h.n * 60 + m.n]
        ELSE [err |-> TRUE, t |-> ZeroTime]

\* t.Format("15:04")
Format(t) ==
    LET hour == (t \div 60) % 24
        min  == t % 60
    IN  <<Digits[(hour \div 10) + 1], Digits[(hour % 10) + 1], ":",
          Digits[(min \div 10) + 1], Digits[(min % 10) + 1]>>

\* The loop with t advanced before the slot is appended, not after it.
slotLoopAdvanceFirst(start, end, interval) ==
    LET n == IF start < end
             THEN (end - start + interval - 1) \div interval
             ELSE 0
    IN  [i \in 1..n |->
            LET t == start + i * interval
            IN  Format(t) \o <<"-">> \o Format(t + interval)]

\* The loop shared by divideSlots and divideAvailableSlots:
\*   for t := start; t.Before(end); t = t.Add(interval) { append "t-(t+interval)" }
\* Its i-th iteration runs with t = start + (i-1)*interval, and it runs
\* while that is before end.
slotLoop(start, end, interval) ==
    LET n == IF start < end
             THEN (end - start + interval - 1) \div interval
             ELSE 0
    IN  [i \in 1..n |->
            LET t == start + (i - 1) * interval
            IN  Format(t) \o <<"-">> \o Format(t + interval)]

splitAvailabilityTime(availabilityTime) ==
    LET parts == Split(availabilityTime)
    IN  IF Len(parts) # 2 THEN <<<<>>, <<>>>>
        ELSE <<TrimSpace(parts[1]), TrimSpace(parts[2])>>

divideSlots(startTime, endTime, interval) ==
    slotLoop(timeParse(startTime).t, timeParse(endTime).t, interval)

divideAvailableSlots(availability, interval) ==
    LET parts == Split(availability)
    IN  IF Len(parts) # 2 THEN <<>>
        ELSE slotLoop(timeParse(parts[1]).t, timeParse(parts[2]).t, interval)

\* isTimeWithinAvailableSlot as a test of the times: the requested slot
\* begins and ends between the first slot's start and the last slot's end.
isTimeWithinAvailableSlotByRange(appointmentTimeSlot, availableSlots) ==
    LET want  == Split(appointmentTimeSlot)
        first == Split(availableSlots[1])
        last  == Split(availableSlots[Len(availableSlots)])
    IN  /\ availableSlots # <<>>
        /\ Len(want) = 2
        /\ timeParse(first[1]).t <= timeParse(want[1]).t
        /\ timeParse(want[2]).t <= timeParse(last[2]).t

isTimeWithinAvailableSlot(appointmentTimeSlot, availableSlots) ==
    \E i \in 1..Len(availableSlots) : availableSlots[i] = appointmentTimeSlot

\* 30*time.Minute
Interval == 30

\* ------------------------------------------------------------------- store

VARIABLES
    availability,   \* rows of models.DoctorAvailability
    patients,       \* patient_id of every row of models.Patient
    doctors,        \* rows of models.Doctor
    appointments,   \* rows of models.Appointment
    invoices,       \* rows of models.Invoice
    op,             \* the handler that ran last
    request,        \* its input
    response,       \* what it answered
    dbError,        \* the query of that run that ended in a database error
    clock,          \* the time, in clock ticks
    now,            \* what time.Now() returned in that run, if it read the clock
    appointments0,  \* the Appointment rows when that run began
    invoices0,      \* the Invoice rows when that run began
    availabilityTime,   \* an AvilableTime string given to the slot dividers
    timeSlots,          \* what splitAvailabilityTime and divideSlots made of it
    availableSlots,     \* what divideAvailableSlots made of it
    divided,            \* the dividers that have run on it
    calls,              \* the concurrent runs of BookAppointment
    raced               \* an appointment was created while the other run,
                        \* for the same slot, was between check and create

serverVars == <<availability, patients, doctors, appointments, invoices, op,
                request, response, dbError, clock, now, appointments0,
                invoices0>>

dividerVars == <<availabilityTime, timeSlots, availableSlots, divided>>

raceVars == <<calls, raced>>

vars == <<serverVars, dividerVars, raceVars>>

DoctorIDs == {1, 2}
PatientIDs == {1, 2, 3}
Dates == {1, 2}

\* The doctors and dates that requests name: doctor 1 on date 1 and doctor 2
\* on date 2 have an availability, doctor 1 on date 2 has none.
RequestedDays == {<<1, 1>>, <<1, 2>>, <<2, 2>>}

W0900_1000 == <<"0", "9", ":", "0", "0", "-", "1", "0", ":", "0", "0">>

W0900_0930 == <<"0", "9", ":", "0", "0", "-", "0", "9", ":", "3", "0">>

S0900_0930 == <<"0", "9", ":", "0", "0", "-", "0", "9", ":", "3", "0">>
S0930_1000 == <<"0", "9", ":", "3", "0", "-", "1", "0", ":", "0", "0">>
S0915_0945 == <<"0", "9", ":", "1", "5", "-", "0", "9", ":", "4", "5">>

\* The time slots a request may name: the two generated slots and one that
\* lies inside the window without being a generated slot.
TimeSlots == {S0900_0930, S0930_1000, S0915_0945}

\* The models.Appointment that BindJSON fills from a request. The handler
\* never reads the two statuses of a request; every request here claims to
\* be confirmed and paid already.
Bookings ==
    {b \in [AppointmentID : {0}, DoctorID : DoctorIDs, PatientID : PatientIDs,
            AppointmentDate : Dates, AppointmentTimeSlot : TimeSlots,
            BookingStatus : {"confirmed"}, PaymentStatus : {"paid"}] :
        <<b.DoctorID, b.AppointmentDate>> \in RequestedDays}

\* The Go nil; as a request, a body that BindJSON rejects.
Nil == [nil |-> TRUE]

\* DB.Where(...).First(&availability): the matching row of the least
\* primary key.
FirstAvailability(rows) == CHOOSE r \in rows : \A q \in rows : r.ID <= q.ID

\* DB.Where("doctor_id = ?", ...).First(&doctor)
FirstDoctor(rows) == CHOOSE r \in rows : \A q \in rows : r.DoctorID <= q.DoctorID

getDoctorAvailability(doctorID, date, fault) ==
    LET rows == {r \in availability : r.DoctorID = doctorID /\ r.Date = date}
    IN  IF fault = "availability" \/ rows = {} THEN Nil
        ELSE FirstAvailability(rows)

\* isAppointmentAvailable without the payment_status filter of its query.
isAppointmentAvailableAnyStatus(doctorID, date, appointmentTimeSlot, fault) ==
    LET rows == {a \in appointments :
                    /\ a.DoctorID = doctorID
                    /\ a.AppointmentDate = date
                    /\ a.AppointmentTimeSlot = appointmentTimeSlot}
        err == IF fault = "conflict" THEN "ErrOther"
               ELSE IF rows = {} THEN "ErrRecordNotFound"
               ELSE "nil"
    IN  IF err = "nil" THEN FALSE
        ELSE IF err # "ErrRecordNotFound" THEN FALSE
        ELSE TRUE

\* isAppointmentAvailable answering true on an unexpected error.
isAppointmentAvailableFailOpen(doctorID, date, appointmentTimeSlot, fault) ==
    LET rows == {a \in appointments :
                    /\ a.DoctorID = doctorID
                    /\ a.AppointmentDate = date
                    /\ a.AppointmentTimeSlot = appointmentTimeSlot
                    /\ a.PaymentStatus = "paid"}
        err == IF fault = "conflict" THEN "ErrOther"
               ELSE IF rows = {} THEN "ErrRecordNotFound"
               ELSE "nil"
    IN  IF err = "nil" THEN FALSE
        ELSE IF err # "ErrRecordNotFound" THEN TRUE
        ELSE TRUE

isAppointmentAvailable(doctorID, date, appointmentTimeSlot, fault) ==
    LET rows == {a \in appointments :
                    /\ a.DoctorID = doctorID
                    /\ a.AppointmentDate = date
                    /\ a.AppointmentTimeSlot = appointmentTimeSlot
                    /\ a.PaymentStatus = "paid"}
        err == IF fault = "conflict" THEN "ErrOther"
               ELSE IF rows = {} THEN "ErrRecordNotFound"
               ELSE "nil"
    IN  IF err = "nil" THEN FALSE
        ELSE IF err # "ErrRecordNotFound" THEN FALSE
        ELSE TRUE

\* isDuplicateAppointment without the payment_status filter of its query.
isDuplicateAppointmentAnyStatus(patientID, doctorID, date, fault) ==
    LET existingAppointments ==
            {a \in appointments :
                /\ a.PatientID = patientID
                /\ a.DoctorID = doctorID
                /\ a.AppointmentDate = date}
        err == IF fault = "duplicate" THEN "ErrOther" ELSE "nil"
    IN  IF err # "nil"
        THEN IF err = "ErrRecordNotFound" THEN TRUE ELSE FALSE
        ELSE Cardinality(existingAppointments) = 0

\* isDuplicateAppointment answering true, no duplicate, on every error.
isDuplicateAppointmentFailOpen(patientID, doctorID, date, fault) ==
    LET existingAppointments ==
            {a \in appointments :
                /\ a.PatientID = patientID
                /\ a.DoctorID = doctorID
                /\ a.AppointmentDate = date
                /\ a.PaymentStatus = "paid"}
        err == IF fault = "duplicate" THEN "ErrOther" ELSE "nil"
    IN  IF err # "nil"
        THEN TRUE
        ELSE Cardinality(existingAppointments) = 0

\* Find(&rows) answers no rows with a nil error, never ErrRecordNotFound.
isDuplicateAppointment(patientID, doctorID, date, fault) ==
    LET existingAppointments ==
            {a \in appointments :
                /\ a.PatientID = patientID
                /\ a.DoctorID = doctorID
                /\ a.AppointmentDate = date
                /\ a.PaymentStatus = "paid"}
        err == IF fault = "duplicate" THEN "ErrOther" ELSE "nil"
    IN  IF err # "nil"
        THEN IF err = "ErrRecordNotFound" THEN TRUE ELSE FALSE
        ELSE Cardinality(existingAppointments) = 0

\* ------------------------------------------------------- BookAppointment

\* What a handler answers: the HTTP status, the "error" of the JSON body
\* ("" when there is none) and, for GetAvailableTimeSlots, the slots.
Answer(status, error) == [status |-> status, error |-> error, slots |-> <<>>]

\* time.Now().AddDate(0, 0, days)
AddDate(t, days) == t + days * TicksPerDay

\* Validate with the patient looked up before the conflicting booking.
ValidatePatientFirst(booking, fault) ==
    LET doctorAvailability ==
            getDoctorAvailability(booking.DoctorID, booking.AppointmentDate, fault)
        availableTimeSlots ==
            divideAvailableSlots(doctorAvailability.AvilableTime, Interval)
    IN  IF doctorAvailability = Nil
        THEN [answer |-> Answer(404, "Doctor availability not found"),
              queries |-> {"availability"}]
        ELSE IF ~isTimeWithinAvailableSlot(booking.AppointmentTimeSlot,
                                           availableTimeSlots)
        THEN [answer |-> Answer(400, "Appointment time slot not available"),
              queries |-> {"availability"}]
        ELSE IF fault = "patient" \/ booking.PatientID \notin patients
        THEN [answer |-> Answer(404, "Wrong patient ID"),
              queries |-> {"availability", "patient"}]
        ELSE IF ~isAppointmentAvailable(booking.DoctorID, booking.AppointmentDate,
                                        booking.AppointmentTimeSlot, fault)
        THEN [answer |-> Answer(400, "Appointment has been already booked for the same date and time slot with the doctor"),
              queries |-> {"availability", "conflict", "patient"}]
        ELSE IF ~isDuplicateAppointment(booking.PatientID, booking.DoctorID,
                                        booking.AppointmentDate, fault)
        THEN [answer |-> Answer(400, "Your Appointment has been already booked with the same doctor in the same day"),
              queries |-> {"availability", "conflict", "patient", "duplicate"}]
        ELSE [answer |-> Answer(0, ""),
              queries |-> {"availability", "conflict", "patient", "duplicate"}]

\* Lines 167-200: the checks, in the order of the code. The answer of the
\* first check that fails, or status 0, and the queries it ran.
Validate(booking, fault) ==
    LET doctorAvailability ==
            getDoctorAvailability(booking.DoctorID, booking.AppointmentDate, fault)
        availableTimeSlots ==
            divideAvailableSlots(doctorAvailability.AvilableTime, Interval)
    IN  IF doctorAvailability = Nil
        THEN [answer |-> Answer(404, "Doctor availability not found"),
              queries |-> {"availability"}]
        ELSE IF ~isTimeWithinAvailableSlot(booking.AppointmentTimeSlot,
                                           availableTimeSlots)
        THEN [answer |-> Answer(400, "Appointment time slot not available"),
              queries |-> {"availability"}]
        ELSE IF ~isAppointmentAvailable(booking.DoctorID, booking.AppointmentDate,
                                        booking.AppointmentTimeSlot, fault)
        THEN [answer |-> Answer(400, "Appointment has been already booked for the same date and time slot with the doctor"),
              queries |-> {"availability", "conflict"}]
        ELSE IF fault = "patient" \/ booking.PatientID \notin patients
        THEN [answer |-> Answer(404, "Wrong patient ID"),
              queries |-> {"availability", "conflict", "patient"}]
        ELSE IF ~isDuplicateAppointment(booking.PatientID, booking.DoctorID,
                                        booking.AppointmentDate, fault)
        THEN [answer |-> Answer(400, "Your Appointment has been already booked with the same doctor in the same day"),
              queries |-> {"availability", "conflict", "patient", "duplicate"}]
        ELSE [answer |-> Answer(0, ""),
              queries |-> {"availability", "conflict", "patient", "duplicate"}]

\* The primary key that DB.Create gives the next row: one more than the
\* greatest of the keys in use.
NextID(keys) ==
    IF keys = {} THEN 1 ELSE (CHOOSE k \in keys : \A j \in keys : j <= k) + 1

\* NewAppointment without the two assignments of lines 202-203.
NewAppointmentAsRequested(booking) ==
    [booking EXCEPT !.AppointmentID = NextID({a.AppointmentID : a \in appointments})]

\* Lines 202-204: the row that DB.Create(&booking) inserts.
NewAppointment(booking) ==
    [booking EXCEPT !.AppointmentID = NextID({a.AppointmentID : a \in appointments}),
                    !.BookingStatus = "pending",
                    !.PaymentStatus = "pending"]

\* NewInvoice without the surcharge of line 224.
NewInvoiceNoSurcharge(booking, doctor, t) ==
    [InvoiceID      |-> NextID({i.InvoiceID : i \in invoices}),
     DoctorID       |-> booking.DoctorID,
     PatientID      |-> booking.PatientID,
     AppointmentID  |-> booking.AppointmentID,
     TotalAmount    |-> doctor.ConsultancyCharge,
     PaymentMethod  |-> "Pending",
     PaymentStatus  |-> "Pending",
     PaymentDueDate |-> AddDate(t, 1)]

\* Lines 216-230: the invoice of a persisted booking.
NewInvoice(booking, doctor, t) ==
    [InvoiceID      |-> NextID({i.InvoiceID : i \in invoices}),
     DoctorID       |-> booking.DoctorID,
     PatientID      |-> booking.PatientID,
     AppointmentID  |-> booking.AppointmentID,
     TotalAmount    |-> doctor.ConsultancyCharge + 50,
     PaymentMethod  |-> "Pending",
     PaymentStatus  |-> "Pending",
     PaymentDueDate |-> AddDate(t, 1)]

\* The outcome of one run: the answer, the queries it ran and the rows of
\* both tables after it.
Outcome(answer, queries, appts, invs) ==
    [answer |-> answer, queries |-> queries, appointments |-> appts,
     invoices |-> invs]

\* Persist undoing the appointment when its invoice cannot be created.
PersistWithRollback(booking, fault, t) ==
    LET created == NewAppointment(booking)
        withBooking == appointments \cup {created}
        rows == {d \in doctors : d.DoctorID = created.DoctorID}
        doctor == FirstDoctor(rows)
        invoice == NewInvoice(created, doctor, t)
    IN  IF fault = "createAppointment"
        THEN Outcome(Answer(500, "Failed to book appointment"),
                     {"createAppointment"}, appointments, invoices)
        ELSE IF fault = "doctor" \/ rows = {}
        THEN Outcome(Answer(500, "Failed to fetch doctor's consultancy charge"),
                     {"createAppointment", "doctor"}, withBooking, invoices)
        ELSE IF fault = "createInvoice"
        THEN Outcome(Answer(500, "Failed to create invoice"),
                     {"createAppointment", "doctor", "createInvoice"},
                     appointments, invoices)
        ELSE Outcome(Answer(200, ""),
                     {"createAppointment", "doctor", "createInvoice"},
                     withBooking, invoices \cup {invoice})

\* Lines 201-240: persist the validated booking and its invoice.
Persist(booking, fault, t) ==
    LET created == NewAppointment(booking)
        withBooking == appointments \cup {created}
        rows == {d \in doctors : d.DoctorID = created.DoctorID}
        doctor == FirstDoctor(rows)
        invoice == NewInvoice(created, doctor, t)
    IN  IF fault = "createAppointment"
        THEN Outcome(Answer(500, "Failed to book appointment"),
                     {"createAppointment"}, appointments, invoices)
        ELSE IF fault = "doctor" \/ rows = {}
        THEN Outcome(Answer(500, "Failed to fetch doctor's consultancy charge"),
                     {"createAppointment", "doctor"}, withBooking, invoices)
        ELSE IF fault = "createInvoice"
        THEN Outcome(Answer(500, "Failed to create invoice"),
                     {"createAppointment", "doctor", "createInvoice"},
                     withBooking, invoices)
        ELSE Outcome(Answer(200, ""),
                     {"createAppointment", "doctor", "createInvoice"},
                     withBooking, invoices \cup {invoice})

\* BookResult creating the appointment before the checks are evaluated.
BookResultCreateFirst(booking, fault, t) ==
    LET v == Validate(booking, fault)
        p == Persist(booking, fault, t)
    IN  IF booking = Nil
        THEN Outcome(Answer(400, "invalid request"), {}, appointments, invoices)
        ELSE IF v.answer.status # 0
        THEN Outcome(v.answer, v.queries,
                     appointments \cup {NewAppointment(booking)}, invoices)
        ELSE [p EXCEPT !.queries = v.queries \cup p.queries]

\* Lines 159-241: the handler, run at time t.
BookResult(booking, fault, t) ==
    LET v == Validate(booking, fault)
        p == Persist(booking, fault, t)
    IN  IF booking = Nil
        THEN Outcome(Answer(400, "invalid request"), {}, appointments, invoices)
        ELSE IF v.answer.status # 0
        THEN Outcome(v.answer, v.queries, appointments, invoices)
        ELSE [p EXCEPT !.queries = v.queries \cup p.queries]

StoreUnchanged == UNCHANGED <<availability, patients, doctors>>

\* One run of the handler. A database error can only strike a query the
\* run makes: one of those the run without error makes. The clock advances
\* by a tick when an appointment is persisted.
BookAppointment ==
    /\ op = "none"
    /\ \E booking \in Bookings \cup {Nil} :
        \E fault \in {"none"} \cup BookResult(booking, "none", clock).queries :
            LET r == BookResult(booking, fault, clock)
            IN  /\ r.appointments # appointments
                      => Cardinality(appointments) < MaxAppointments
                /\ op' = "BookAppointment"
                /\ request' = booking
                /\ response' = r.answer
                /\ dbError' = fault
                /\ now' = clock
                /\ clock' = IF r.appointments # appointments
                            THEN clock + 1 ELSE clock
                /\ appointments0' = appointments
                /\ invoices0' = invoices
                /\ appointments' = r.appointments
                /\ invoices' = r.invoices
                /\ StoreUnchanged
                /\ UNCHANGED <<dividerVars, raceVars>>

\* The payment handlers of the platform: the payment of an invoice marks its
\* pending appointment paid.
MarkPaid ==
    \E a \in appointments :
        /\ op = "none"
        /\ a.PaymentStatus = "pending"
        /\ \E i \in invoices : i.AppointmentID = a.AppointmentID
        /\ appointments' =
              (appointments \ {a}) \cup {[a EXCEPT !.PaymentStatus = "paid"]}
        /\ op' = "MarkPaid"
        /\ request' = [AppointmentID |-> a.AppointmentID]
        /\ response' = Answer(200, "")
        /\ dbError' = "none"
        /\ now' = clock
        /\ appointments0' = appointments
        /\ invoices0' = invoices
        /\ UNCHANGED <<invoices, clock>>
        /\ StoreUnchanged
        /\ UNCHANGED <<dividerVars, raceVars>>

\* ------------------------------------------------- GetAvailableTimeSlots

\* The listing that ends at the first booked slot, not skipping it.
SlotsResultUntilBooked(doctorID, date, fault) ==
    LET rows == {r \in availability : r.DoctorID = doctorID /\ r.Date = date}
        avail == FirstAvailability(rows)
        times == splitAvailabilityTime(avail.AvilableTime)
        availableTimeSlots == divideSlots(times[1], times[2], Interval)
        bookings == {a \in appointments :
                        a.DoctorID = doctorID /\ a.AppointmentDate = date}
        bookedTimeSlots == {b.AppointmentTimeSlot : b \in bookings}
        free == {n \in 0..Len(availableTimeSlots) :
                    \A i \in 1..n : availableTimeSlots[i] \notin bookedTimeSlots}
        adjustedTimeSlots ==
            SubSeq(availableTimeSlots, 1, CHOOSE n \in free : \A k \in free : k <= n)
    IN  IF fault = "date"
        THEN Answer(400, "Invalid date format")
        ELSE IF fault = "availability" \/ rows = {}
        THEN Answer(404, "Availability not found")
        ELSE IF fault = "bookings"
        THEN Answer(500, "Failed to retrieve bookings")
        ELSE [status |-> 200, error |-> "", slots |-> adjustedTimeSlots]

\* The listing that leaves out the slots of paid appointments only.
SlotsResultPaidOnly(doctorID, date, fault) ==
    LET rows == {r \in availability : r.DoctorID = doctorID /\ r.Date = date}
        avail == FirstAvailability(rows)
        times == splitAvailabilityTime(avail.AvilableTime)
        availableTimeSlots == divideSlots(times[1], times[2], Interval)
        bookings == {a \in appointments :
                        /\ a.DoctorID = doctorID /\ a.AppointmentDate = date
                        /\ a.PaymentStatus = "paid"}
        bookedTimeSlots == {b.AppointmentTimeSlot : b \in bookings}
        adjustedTimeSlots ==
            SelectSeq(availableTimeSlots, LAMBDA slot : slot \notin bookedTimeSlots)
    IN  IF fault = "date"
        THEN Answer(400, "Invalid date format")
        ELSE IF fault = "availability" \/ rows = {}
        THEN Answer(404, "Availability not found")
        ELSE IF fault = "bookings"
        THEN Answer(500, "Failed to retrieve bookings")
        ELSE [status |-> 200, error |-> "", slots |-> adjustedTimeSlots]

\* Lines 18-67, with fault the step of the run that fails: the parsing of
\* the date or one of the two queries.
SlotsResult(doctorID, date, fault) ==
    LET rows == {r \in availability : r.DoctorID = doctorID /\ r.Date = date}
        avail == FirstAvailability(rows)
        times == splitAvailabilityTime(avail.AvilableTime)
        availableTimeSlots == divideSlots(times[1], times[2], Interval)
        bookings == {a \in appointments :
                        a.DoctorID = doctorID /\ a.AppointmentDate = date}
        bookedTimeSlots == {b.AppointmentTimeSlot : b \in bookings}
        adjustedTimeSlots ==
            SelectSeq(availableTimeSlots, LAMBDA slot : slot \notin bookedTimeSlots)
    IN  IF fault = "date"
        THEN Answer(400, "Invalid date format")
        ELSE IF fault = "availability" \/ rows = {}
        THEN Answer(404, "Availability not found")
        ELSE IF fault = "bookings"
        THEN Answer(500, "Failed to retrieve bookings")
        ELSE [status |-> 200, error |-> "", slots |-> adjustedTimeSlots]

GetAvailableTimeSlots ==
    /\ op = "none"
    /\ \E doctorID \in DoctorIDs, date \in Dates :
        /\ <<doctorID, date>> \in RequestedDays
        /\ \E fault \in {"none", "date", "availability"}
                     \cup IF SlotsResult(doctorID, date, "none").status = 404
                          THEN {} ELSE {"bookings"} :
            /\ op' = "GetAvailableTimeSlots"
            /\ request' = [DoctorID |-> doctorID, Date |-> date]
            /\ response' = SlotsResult(doctorID, date, fault)
            /\ dbError' = IF fault = "date" THEN "none" ELSE fault
            /\ now' = clock
            /\ appointments0' = appointments
            /\ invoices0' = invoices
            /\ UNCHANGED <<appointments, invoices, clock>>
            /\ StoreUnchanged
            /\ UNCHANGED <<dividerVars, raceVars>>

\* The handler returns and its answer is delivered: the server is ready for
\* the next request.
Return ==
    /\ op # "none"
    /\ op' = "none"
    /\ request' = Nil
    /\ response' = Answer(0, "")
    /\ dbError' = "none"
    /\ now' = 0
    /\ appointments0' = {}
    /\ invoices0' = {}
    /\ UNCHANGED <<appointments, invoices, clock>>
    /\ StoreUnchanged
    /\ UNCHANGED <<dividerVars, raceVars>>

\* ------------------------------------------------------------------- spec

\* The store before the first request: the availabilities, patients and
\* doctors that the other handlers of the platform have recorded, and no
\* appointment or invoice yet.
InitServer ==
    /\ availability =
          {[ID |-> 1, DoctorID |-> 1, Date |-> 1, AvilableTime |-> W0900_1000],
           [ID |-> 2, DoctorID |-> 2, Date |-> 2, AvilableTime |-> W0900_0930]}
    /\ patients = {1, 2}
    /\ doctors = {[DoctorID |-> 1, ConsultancyCharge |-> 100],
                  [DoctorID |-> 2, ConsultancyCharge |-> 300]}
    /\ appointments = {}
    /\ invoices = {}
    /\ op = "none"
    /\ request = Nil
    /\ response = Answer(0, "")
    /\ dbError = "none"
    /\ clock = 0
    /\ now = 0
    /\ appointments0 = {}
    /\ invoices0 = {}

\* The two requests that may run at once.
Calls == {1, 2}

\* A run of BookAppointment: the line it is at, the models.Appointment it
\* bound, the query of it that ended in a database error, and its answer.
IdleCall ==
    [pc |-> "idle", booking |-> Nil, fault |-> "none", answer |-> Answer(0, "")]

InitIdle ==
    /\ availabilityTime = <<>>
    /\ timeSlots = <<>>
    /\ availableSlots = <<>>
    /\ divided = {}
    /\ calls = [c \in Calls |-> IdleCall]
    /\ raced = FALSE

Init == InitServer /\ InitIdle

Next == BookAppointment \/ MarkPaid \/ GetAvailableTimeSlots \/ Return

Spec == Init /\ [][Next]_vars

\* ------------------------------------------------------ the slot dividers

\* The text of a time of day.
HHMM(hour, min) ==
    <<Digits[(hour \div 10) + 1], Digits[(hour % 10) + 1], ":",
      Digits[(min \div 10) + 1], Digits[(min % 10) + 1]>>

\* Times of day on the quarter hours, from midnight to the last of the day.
ClockTexts == {HHMM(hour, min) : hour \in {0, 9, 10, 11, 23},
                                min \in {0, 15, 30, 45}}

\* Texts that are a time, a time with white space around it, a time that
\* time.Parse takes although its hour has one digit, and texts that it
\* rejects.
EdgeTexts ==
    {HHMM(9, 0), HHMM(11, 0),
     HHMM(9, 0) \o <<" ">>, <<" ">> \o HHMM(11, 0),
     <<"9", ":", "0", "0">>,
     <<"2", "4", ":", "0", "0">>, <<"0", "9", ":", "6", "0">>,
     <<"0", "9", ":", "0">>, <<"x">>, <<>>}

\* The AvilableTime strings given to the dividers: windows of two times,
\* of two edge texts, a text with no separator and one with two.
AvailabilityTimes ==
    {startTime \o <<"-">> \o endTime : startTime \in ClockTexts, endTime \in ClockTexts}
    \cup {startTime \o <<"-">> \o endTime : startTime \in EdgeTexts, endTime \in EdgeTexts}
    \cup EdgeTexts
    \cup {HHMM(9, 0) \o <<"-">> \o HHMM(10, 0) \o <<"-">> \o HHMM(11, 0)}

\* Lines 44-45 and 70-95: the read path, splitAvailabilityTime and then
\* divideSlots.
DivideSlots ==
    /\ "divideSlots" \notin divided
    /\ LET times == splitAvailabilityTime(availabilityTime)
       IN  timeSlots' = divideSlots(times[1], times[2], Interval)
    /\ divided' = divided \cup {"divideSlots"}
    /\ UNCHANGED <<availabilityTime, availableSlots>>
    /\ UNCHANGED <<serverVars, raceVars>>

\* Lines 175 and 277-297: the write path, divideAvailableSlots.
DivideAvailableSlots ==
    /\ "divideAvailableSlots" \notin divided
    /\ availableSlots' = divideAvailableSlots(availabilityTime, Interval)
    /\ divided' = divided \cup {"divideAvailableSlots"}
    /\ UNCHANGED <<availabilityTime, timeSlots>>
    /\ UNCHANGED <<serverVars, raceVars>>

InitDivide ==
    /\ InitServer
    /\ availabilityTime \in AvailabilityTimes
    /\ timeSlots = <<>>
    /\ availableSlots = <<>>
    /\ divided = {}
    /\ calls = [c \in Calls |-> IdleCall]
    /\ raced = FALSE

NextDivide == DivideSlots \/ DivideAvailableSlots

SpecDivide == InitDivide /\ [][NextDivide]_vars

\* ------------------------------------------------------------ properties

\* The failure kind that an answer of BookAppointment reports.
FailureKind(answer) ==
    CASE answer.error = "invalid request" -> "InputFormatError"
      [] answer.error = "Doctor availability not found" -> "AvailabilityNotFound"
      [] answer.error = "Appointment time slot not available" -> "SlotNotAvailable"
      [] answer.error = "Appointment has been already booked for the same date and time slot with the doctor" -> "SlotConflict"
      [] answer.error = "Wrong patient ID" -> "PatientNotFound"
      [] answer.error = "Your Appointment has been already booked with the same doctor in the same day" -> "DuplicateBooking"
      [] answer.status = 500 -> "PersistenceError"
      [] OTHER -> "none"

ValidatorKinds ==
    <<"AvailabilityNotFound", "SlotNotAvailable", "SlotConflict",
      "PatientNotFound", "DuplicateBooking">>

\* BookAppointment has just run on a request that BindJSON accepted.
Booked == op = "BookAppointment" /\ request # Nil

\* The availability rows of the request's doctor and date.
Windows(b) ==
    {r \in availability : r.DoctorID = b.DoctorID /\ r.Date = b.AppointmentDate}

\* The slot strings generated from the window of the request.
GeneratedSlots(b) ==
    UNION {LET slots == divideAvailableSlots(r.AvilableTime, Interval)
           IN  {slots[i] : i \in 1..Len(slots)} : r \in Windows(b)}

\* The paid appointments, when the run began, of the request's doctor, date
\* and slot, and those of its patient with that doctor on that date.
PaidSameSlot(b) ==
    {a \in appointments0 :
        /\ a.DoctorID = b.DoctorID
        /\ a.AppointmentDate = b.AppointmentDate
        /\ a.AppointmentTimeSlot = b.AppointmentTimeSlot
        /\ a.PaymentStatus = "paid"}

PaidSameDay(b) ==
    {a \in appointments0 :
        /\ a.PatientID = b.PatientID
        /\ a.DoctorID = b.DoctorID
        /\ a.AppointmentDate = b.AppointmentDate
        /\ a.PaymentStatus = "paid"}

\* The checks, numbered in the order of ValidatorKinds, that the request
\* fails on the store as it was when the run began, or by a database error.
FailedChecks ==
    {i \in 1..5 :
        \/ i = 1 /\ (Windows(request) = {} \/ dbError = "availability")
        \/ i = 2 /\ Windows(request) # {}
                 /\ request.AppointmentTimeSlot \notin GeneratedSlots(request)
        \/ i = 3 /\ (PaidSameSlot(request) # {} \/ dbError = "conflict")
        \/ i = 4 /\ (request.PatientID \notin patients \/ dbError = "patient")
        \/ i = 5 /\ (PaidSameDay(request) # {} \/ dbError = "duplicate")}

FirstFailed == CHOOSE i \in FailedChecks : \A j \in FailedChecks : i <= j

\* C1: a request that fails one or more of the five checks is answered with
\* the failure kind of the first check, in the order availability, slot
\* membership, conflict, patient, duplicate, that it fails; a request that
\* fails none is answered with none of the five kinds.
C1_FirstFailureReported ==
    Booked =>
        IF FailedChecks = {}
        THEN \A i \in 1..5 : FailureKind(response) # ValidatorKinds[i]
        ELSE FailureKind(response) = ValidatorKinds[FirstFailed]

\* A request for a slot that is paid for, by a patient who is not known.
C1_Witness ==
    /\ Booked
    /\ {3, 4} \subseteq FailedChecks
    /\ FailureKind(response) = "SlotConflict"

\* C2: a run that ends with one of the five validator failure kinds, or
\* with the failure to persist the appointment, leaves the appointments
\* and the invoices as they were.
C2_FailureWritesNothing ==
    (/\ op = "BookAppointment"
     /\ \/ \E i \in 1..5 : FailureKind(response) = ValidatorKinds[i]
        \/ response.error = "Failed to book appointment")
        => appointments = appointments0 /\ invoices = invoices0

\* The appointment could not be persisted, in a store that holds others.
C2_Witness ==
    /\ op = "BookAppointment"
    /\ response.error = "Failed to book appointment"
    /\ appointments # {}

\* The run reached the conflict check and its query did not fail.
ReachedConflictCheck ==
    /\ Booked
    /\ Windows(request) # {}
    /\ request.AppointmentTimeSlot \in GeneratedSlots(request)
    /\ dbError \notin {"availability", "conflict"}

\* C3: a request for a generated slot, whose conflict query does not fail,
\* is answered SlotConflict exactly if a paid appointment of the same
\* doctor, date and slot exists; pending ones do not count.
C3_ConflictIffPaid ==
    ReachedConflictCheck =>
        (FailureKind(response) = "SlotConflict" <=> PaidSameSlot(request) # {})

\* A slot is booked a second time while its first booking is pending.
C3_Witness ==
    /\ Booked
    /\ response.status = 200
    /\ \E a \in appointments0 :
          /\ a.DoctorID = request.DoctorID
          /\ a.AppointmentDate = request.AppointmentDate
          /\ a.AppointmentTimeSlot = request.AppointmentTimeSlot
          /\ a.PaymentStatus = "pending"

\* The run passed the first four checks and its duplicate query did not fail.
ReachedDuplicateCheck ==
    /\ ReachedConflictCheck
    /\ PaidSameSlot(request) = {}
    /\ request.PatientID \in patients
    /\ dbError \notin {"patient", "duplicate"}

\* C4: a request that passes the first four checks, and whose duplicate
\* query does not fail, is answered DuplicateBooking exactly if a paid
\* appointment of the same patient, doctor and date exists, whatever its
\* slot; pending ones do not count.
C4_DuplicateIffPaid ==
    ReachedDuplicateCheck =>
        (FailureKind(response) = "DuplicateBooking" <=> PaidSameDay(request) # {})

\* The patient has paid for another slot of that doctor on that date, and a
\* pending appointment of the same patient, doctor and date was let through.
C4_Witness ==
    /\ ReachedDuplicateCheck
    /\ FailureKind(response) = "DuplicateBooking"
    /\ \E a \in PaidSameDay(request) :
          a.AppointmentTimeSlot # request.AppointmentTimeSlot
    /\ \E a \in appointments0 :
          /\ a.PatientID = request.PatientID
          /\ a.DoctorID = request.DoctorID
          /\ a.AppointmentDate = request.AppointmentDate
          /\ a.PaymentStatus = "pending"

\* C5: a request whose doctor has an availability for the date is answered
\* SlotNotAvailable exactly if its time slot is not, as a string, one of
\* the slots generated from that availability.
C5_MembershipIsEquality ==
    (Booked /\ Windows(request) # {} /\ dbError # "availability") =>
        (FailureKind(response) = "SlotNotAvailable"
            <=> request.AppointmentTimeSlot \notin GeneratedSlots(request))

\* "09:15-09:45" lies inside the window "09:00-10:00" and is refused.
C5_Witness ==
    /\ Booked
    /\ \E r \in Windows(request) : r.AvilableTime = W0900_1000
    /\ request.AppointmentTimeSlot = S0915_0945
    /\ FailureKind(response) = "SlotNotAvailable"

\* C6: every appointment that a run of BookAppointment adds is pending in
\* both statuses, whatever statuses the request carried.
C6_CreatedPending ==
    op = "BookAppointment" =>
        \A a \in appointments \ appointments0 :
            a.BookingStatus = "pending" /\ a.PaymentStatus = "pending"

\* A request that claimed to be paid has been persisted.
C6_Witness ==
    /\ Booked
    /\ request.PaymentStatus = "paid"
    /\ appointments \ appointments0 # {}

\* The invoices of an appointment, and the appointments of an invoice.
InvoicesOf(a) == {i \in invoices : i.AppointmentID = a.AppointmentID}

AppointmentsOf(i) ==
    {a \in appointments :
        /\ a.AppointmentID = i.AppointmentID
        /\ a.DoctorID = i.DoctorID
        /\ a.PatientID = i.PatientID}

\* C7: when every call has returned, each appointment has exactly one
\* invoice and each invoice exactly one appointment, of its doctor and
\* patient.
C7_OneInvoicePerAppointment ==
    op = "none" =>
        /\ \A a \in appointments : Cardinality(InvoicesOf(a)) = 1
        /\ \A i \in invoices : Cardinality(AppointmentsOf(i)) = 1

\* C8: when the invoice cannot be persisted the run answers with status
\* 500, PersistenceError, and has added the appointment of the request and
\* no invoice: the appointment stays without one.
C8_InvoiceFailureKeepsAppointment ==
    (op = "BookAppointment" /\ response.error = "Failed to create invoice") =>
        /\ response.status = 500
        /\ FailureKind(response) = "PersistenceError"
        /\ invoices = invoices0
        /\ \E a \in appointments :
              /\ appointments = appointments0 \cup {a}
              /\ a \notin appointments0
              /\ a.DoctorID = request.DoctorID
              /\ a.PatientID = request.PatientID
              /\ a.AppointmentDate = request.AppointmentDate
              /\ a.AppointmentTimeSlot = request.AppointmentTimeSlot
              /\ InvoicesOf(a) = {}

C8_Witness ==
    /\ op = "BookAppointment"
    /\ response.error = "Failed to create invoice"
    /\ dbError = "createInvoice"
    /\ invoices # {}

\* C9: a successful run adds exactly one invoice, for the appointment it
\* added: its total is the consultancy charge of the booked doctor plus
\* 50, its payment status and method are "Pending" and it is due one day
\* after the time the run read.
C9_InvoiceOfBooking ==
    (op = "BookAppointment" /\ response.status = 200) =>
        \E i \in invoices, a \in appointments, d \in doctors :
            /\ invoices = invoices0 \cup {i} /\ i \notin invoices0
            /\ appointments = appointments0 \cup {a} /\ a \notin appointments0
            /\ i.AppointmentID = a.AppointmentID
            /\ d.DoctorID = request.DoctorID
            /\ i.TotalAmount = d.ConsultancyCharge + 50
            /\ i.PaymentStatus = "Pending"
            /\ i.PaymentMethod = "Pending"
            /\ i.PaymentDueDate = now + TicksPerDay

\* The second booking, made a tick after the first, of the doctor who
\* charges 300.
C9_Witness ==
    /\ op = "BookAppointment"
    /\ response.status = 200
    /\ request.DoctorID = 2
    /\ now = 1
    /\ \E i \in invoices \ invoices0 : i.TotalAmount = 350

\* C10: a database error in the conflict query is answered SlotConflict,
\* and nothing is persisted.
C10_ConflictQueryFailsClosed ==
    (op = "BookAppointment" /\ dbError = "conflict") =>
        /\ FailureKind(response) = "SlotConflict"
        /\ appointments = appointments0
        /\ invoices = invoices0

\* The query failed for a slot that no paid appointment holds.
C10_Witness ==
    /\ Booked
    /\ dbError = "conflict"
    /\ PaidSameSlot(request) = {}
    /\ FailureKind(response) = "SlotConflict"

\* C11 as claimed: a database error in the duplicate query is taken for "no
\* duplicate", so the request passes validation and the run goes on to
\* create the appointment.
C11_DuplicateQueryErrorPasses ==
    (Booked /\ dbError = "duplicate") =>
        /\ FailureKind(response) # "DuplicateBooking"
        /\ "createAppointment" \in BookResult(request, "none", now).queries

\* C11, amended: a database error in the duplicate query is answered
\* DuplicateBooking and nothing is persisted, while the same request with
\* no error and no paid appointment of that patient, doctor and date passes
\* validation.
C11_DuplicateQueryFailsClosed ==
    /\ (op = "BookAppointment" /\ dbError = "duplicate") =>
          /\ FailureKind(response) = "DuplicateBooking"
          /\ appointments = appointments0
          /\ invoices = invoices0
    /\ (ReachedDuplicateCheck /\ PaidSameDay(request) = {}) =>
          FailureKind(response) # "DuplicateBooking"

\* The query failed for a patient with no paid appointment that day.
C11_Witness ==
    /\ Booked
    /\ dbError = "duplicate"
    /\ PaidSameDay(request) = {}
    /\ FailureKind(response) = "DuplicateBooking"

\* ------------------------------------------------- concurrent requests

\* The requests that run at once name doctor 1 on date 1.
RaceBookings == {b \in Bookings : b.DoctorID = 1 /\ b.AppointmentDate = 1}

\* The run returns with this answer.
Finish(call, fault, answer) ==
    [call EXCEPT !.pc = "done", !.fault = fault, !.answer = answer]

recordVars == <<op, request, response, dbError, now, appointments0, invoices0>>

\* What a step of a run that only reads leaves as it is.
ReadOnly ==
    /\ UNCHANGED <<appointments, invoices, clock, raced>>
    /\ UNCHANGED <<recordVars, dividerVars>>
    /\ StoreUnchanged

\* Lines 160-165: a request arrives and BindJSON fills the booking.
Bind(c) ==
    /\ calls[c].pc = "idle"
    /\ \E booking \in RaceBookings \cup {Nil} :
          calls' = [calls EXCEPT ![c] =
              IF booking = Nil
              THEN Finish(@, "none", Answer(400, "invalid request"))
              ELSE [@ EXCEPT !.pc = "availability", !.booking = booking]]
    /\ ReadOnly

\* Lines 167-180: the availability of the doctor and date, and the
\* requested slot among its slots.
CheckSlot(c) ==
    /\ calls[c].pc = "availability"
    /\ \E fault \in {"none", "availability"} :
          LET booking == calls[c].booking
              doctorAvailability ==
                  getDoctorAvailability(booking.DoctorID, booking.AppointmentDate, fault)
              availableTimeSlots ==
                  divideAvailableSlots(doctorAvailability.AvilableTime, Interval)
          IN  calls' = [calls EXCEPT ![c] =
                  IF doctorAvailability = Nil
                  THEN Finish(@, fault, Answer(404, "Doctor availability not found"))
                  ELSE IF ~isTimeWithinAvailableSlot(booking.AppointmentTimeSlot,
                                                     availableTimeSlots)
                  THEN Finish(@, fault, Answer(400, "Appointment time slot not available"))
                  ELSE [@ EXCEPT !.pc = "conflict"]]
    /\ ReadOnly

\* Lines 183-186: the conflict check.
CheckConflict(c) ==
    /\ calls[c].pc = "conflict"
    /\ \E fault \in {"none", "conflict"} :
          LET booking == calls[c].booking
          IN  calls' = [calls EXCEPT ![c] =
                  IF ~isAppointmentAvailable(booking.DoctorID, booking.AppointmentDate,
                                             booking.AppointmentTimeSlot, fault)
                  THEN Finish(@, fault, Answer(400, "Appointment has been already booked for the same date and time slot with the doctor"))
                  ELSE [@ EXCEPT !.pc = "patient"]]
    /\ ReadOnly

\* Lines 189-193: the patient.
CheckPatient(c) ==
    /\ calls[c].pc = "patient"
    /\ \E fault \in {"none", "patient"} :
          calls' = [calls EXCEPT ![c] =
              IF fault = "patient" \/ calls[c].booking.PatientID \notin patients
              THEN Finish(@, fault, Answer(404, "Wrong patient ID"))
              ELSE [@ EXCEPT !.pc = "duplicate"]]
    /\ ReadOnly

\* Lines 196-200: the duplicate check.
CheckDuplicate(c) ==
    /\ calls[c].pc = "duplicate"
    /\ \E fault \in {"none", "duplicate"} :
          LET booking == calls[c].booking
          IN  calls' = [calls EXCEPT ![c] =
                  IF ~isDuplicateAppointment(booking.PatientID, booking.DoctorID,
                                             booking.AppointmentDate, fault)
                  THEN Finish(@, fault, Answer(400, "Your Appointment has been already booked with the same doctor in the same day"))
                  ELSE [@ EXCEPT !.pc = "create"]]
    /\ ReadOnly

\* The other run has passed the conflict check for the slot of this run
\* and has not yet created its appointment.
OtherInGap(c) ==
    \E d \in Calls \ {c} :
        /\ calls[d].pc \in {"patient", "duplicate", "create"}
        /\ calls[d].booking.DoctorID = calls[c].booking.DoctorID
        /\ calls[d].booking.AppointmentDate = calls[c].booking.AppointmentDate
        /\ calls[d].booking.AppointmentTimeSlot = calls[c].booking.AppointmentTimeSlot

\* CreateAppointment on a table with a unique index on doctor, date and
\* time slot: the insert of a second row for a slot fails.
CreateAppointmentUnique(c) ==
    /\ calls[c].pc = "create"
    /\ \E fault \in {"none", "createAppointment"} :
          LET created == NewAppointment(calls[c].booking)
              clash == \E a \in appointments :
                          /\ a.DoctorID = created.DoctorID
                          /\ a.AppointmentDate = created.AppointmentDate
                          /\ a.AppointmentTimeSlot = created.AppointmentTimeSlot
          IN  IF fault # "none" \/ clash
              THEN /\ calls' = [calls EXCEPT ![c] =
                          Finish(@, fault, Answer(500, "Failed to book appointment"))]
                   /\ UNCHANGED <<appointments, clock, raced>>
              ELSE /\ appointments' = appointments \cup {created}
                   /\ calls' = [calls EXCEPT ![c] =
                          [@ EXCEPT !.pc = "doctor", !.booking = created]]
                   /\ clock' = clock + 1
                   /\ raced' = (raced \/ OtherInGap(c))
    /\ UNCHANGED <<invoices, recordVars, dividerVars>>
    /\ StoreUnchanged

\* Lines 202-208: the booking is made pending and inserted.
CreateAppointment(c) ==
    /\ calls[c].pc = "create"
    /\ \E fault \in {"none", "createAppointment"} :
          LET created == NewAppointment(calls[c].booking)
          IN  IF fault # "none"
              THEN /\ calls' = [calls EXCEPT ![c] =
                          Finish(@, fault, Answer(500, "Failed to book appointment"))]
                   /\ UNCHANGED <<appointments, clock, raced>>
              ELSE /\ appointments' = appointments \cup {created}
                   /\ calls' = [calls EXCEPT ![c] =
                          [@ EXCEPT !.pc = "doctor", !.booking = created]]
                   /\ clock' = clock + 1
                   /\ raced' = (raced \/ OtherInGap(c))
    /\ UNCHANGED <<invoices, recordVars, dividerVars>>
    /\ StoreUnchanged

\* Lines 210-214: the doctor of the booking.
FetchDoctor(c) ==
    /\ calls[c].pc = "doctor"
    /\ \E fault \in {"none", "doctor"} :
          LET rows == {d \in doctors : d.DoctorID = calls[c].booking.DoctorID}
          IN  calls' = [calls EXCEPT ![c] =
                  IF fault = "doctor" \/ rows = {}
                  THEN Finish(@, fault, Answer(500, "Failed to fetch doctor's consultancy charge"))
                  ELSE [@ EXCEPT !.pc = "invoice"]]
    /\ ReadOnly

\* Lines 216-240: the invoice is inserted and the run answers.
CreateInvoice(c) ==
    /\ calls[c].pc = "invoice"
    /\ \E fault \in {"none", "createInvoice"} :
          LET rows == {d \in doctors : d.DoctorID = calls[c].booking.DoctorID}
              invoice == NewInvoice(calls[c].booking, FirstDoctor(rows), clock)
          IN  IF fault # "none"
              THEN /\ calls' = [calls EXCEPT ![c] =
                          Finish(@, fault, Answer(500, "Failed to create invoice"))]
                   /\ UNCHANGED invoices
              ELSE /\ invoices' = invoices \cup {invoice}
                   /\ calls' = [calls EXCEPT ![c] = Finish(@, fault, Answer(200, ""))]
    /\ UNCHANGED <<appointments, clock, raced, recordVars, dividerVars>>
    /\ StoreUnchanged

\* Two requests run at once, each a step at a time, while invoices are
\* paid.
NextRace ==
    \/ \E c \in Calls :
          \/ Bind(c)
          \/ CheckSlot(c)
          \/ CheckConflict(c)
          \/ CheckPatient(c)
          \/ CheckDuplicate(c)
          \/ CreateAppointment(c)
          \/ FetchDoctor(c)
          \/ CreateInvoice(c)
    \/ MarkPaid
    \/ Return

SpecRace == Init /\ [][NextRace]_vars

\* ---------------------------------------------- properties of the listing

Listed == op = "GetAvailableTimeSlots" /\ response.status = 200

\* The candidate slots of the listed doctor and date, as the read path
\* generates them.
Candidates ==
    LET row == CHOOSE r \in availability :
                   r.DoctorID = request.DoctorID /\ r.Date = request.Date
        times == splitAvailabilityTime(row.AvilableTime)
    IN  divideSlots(times[1], times[2], Interval)

\* Some appointment of the listed doctor and date has this time slot.
Taken(slot) ==
    \E a \in appointments :
        /\ a.DoctorID = request.DoctorID
        /\ a.AppointmentDate = request.Date
        /\ a.AppointmentTimeSlot = slot

\* C15: the list that GetAvailableTimeSlots returns is the candidate slots
\* of the doctor and date, in the order of their generation, without those
\* that are the time slot of some appointment of that doctor and date,
\* whatever its status: its i-th slot is the i-th candidate that no
\* appointment has.
C15_ListingIsCandidatesMinusTaken ==
    Listed =>
        LET kept == {j \in 1..Len(Candidates) : ~Taken(Candidates[j])}
        IN  /\ Len(response.slots) = Cardinality(kept)
            /\ \A i \in 1..Len(response.slots) :
                  \E j \in kept :
                      /\ Cardinality({k \in kept : k <= j}) = i
                      /\ response.slots[i] = Candidates[j]

\* Of the two slots of 09:00-10:00 the first is taken by a pending
\* appointment, and the list is the second alone.
C15_Witness ==
    /\ Listed
    /\ Candidates = <<S0900_0930, S0930_1000>>
    /\ Taken(S0900_0930)
    /\ \A a \in appointments : a.PaymentStatus = "pending"
    /\ response.slots = <<S0930_1000>>

\* What the store holds for the listing of a doctor and date: the
\* availability rows, and the doctor, date and time slot of the appointments.
SlotKeys ==
    {<<a.DoctorID, a.AppointmentDate, a.AppointmentTimeSlot>> : a \in appointments}

\* C16: a run of GetAvailableTimeSlots changes no appointment, invoice or
\* availability, and asking again at once gives the same list; the list of
\* every doctor and date is decided by the availability rows and by the
\* doctors, dates and time slots of the appointments, which no step
\* changes that persists no new appointment. So two runs for the same
\* doctor and date with no booking persisted between them return the same
\* list.
C16_ListingReadOnlyRepeatable ==
    /\ [](Listed =>
            /\ appointments = appointments0
            /\ invoices = invoices0
            /\ response = SlotsResult(request.DoctorID, request.Date, "none"))
    /\ [](\A day \in RequestedDays :
            LET again == SlotsResult(day[1], day[2], "none")
                row == CHOOSE r \in availability :
                           r.DoctorID = day[1] /\ r.Date = day[2]
                times == splitAvailabilityTime(row.AvilableTime)
            IN  again.status = 200 =>
                    again.slots =
                        SelectSeq(divideSlots(times[1], times[2], Interval),
                                  LAMBDA slot : <<day[1], day[2], slot>> \notin SlotKeys))
    /\ [][/\ availability' = availability
           /\ {a.AppointmentID : a \in appointments'}
                   = {a.AppointmentID : a \in appointments}
                 => SlotKeys' = SlotKeys]_vars

\* A list was returned while an appointment that hides a slot from it has
\* been paid, and the store is as the run found it.
C16_Witness ==
    /\ Listed
    /\ response.slots = <<S0930_1000>>
    /\ \E a \in appointments : a.PaymentStatus = "paid"
    /\ appointments = appointments0
    /\ invoices = invoices0

\* --------------------------------- properties of concurrent requests

\* The appointments of the doctor, date and time slot that a run names.
SameSlot(c) ==
    {a \in appointments :
        /\ a.DoctorID = calls[c].booking.DoctorID
        /\ a.AppointmentDate = calls[c].booking.AppointmentDate
        /\ a.AppointmentTimeSlot = calls[c].booking.AppointmentTimeSlot}

\* C17: nothing serializes two requests for the same doctor, date and
\* slot. When both have passed the conflict check before either creates
\* its appointment, each of them that the later checks let pass and that
\* meets no database error is answered 200 with its appointment persisted,
\* so that the slot then has two appointments.
C17_RacingRequestsBothPersist ==
    (raced /\ \A c \in Calls : calls[c].pc = "done") =>
        LET passed == {c \in Calls :
                          /\ calls[c].fault = "none"
                          /\ FailureKind(calls[c].answer)
                                 \notin {"PatientNotFound", "DuplicateBooking"}}
        IN  /\ \A c \in passed :
                  /\ calls[c].answer.status = 200
                  /\ \E a \in SameSlot(c) :
                        a.AppointmentID = calls[c].booking.AppointmentID
            /\ passed = Calls => \A c \in Calls : Cardinality(SameSlot(c)) = 2

\* Both requests passed the conflict check before either created its
\* appointment, both were answered 200, and the slot has two appointments.
C17_Witness ==
    /\ raced
    /\ \A c \in Calls : calls[c].pc = "done" /\ calls[c].answer.status = 200
    /\ \A c \in Calls : Cardinality(SameSlot(c)) = 2

\* ------------------------------------------- properties of the dividers

\* A text "HH:MM" of two digits each, the hour below 24, the minute below 60.
WellFormedTime(s) ==
    /\ Len(s) = 5
    /\ isDigit(s, 1) /\ isDigit(s, 2) /\ s[3] = ":"
    /\ isDigit(s, 4) /\ isDigit(s, 5)
    /\ DigitVal(s[1]) * 10 + DigitVal(s[2]) < 24
    /\ DigitVal(s[4]) * 10 + DigitVal(s[5]) < 60

\* The minute of the day that a well-formed time names.
MinuteOfDay(s) ==
    (DigitVal(s[1]) * 10 + DigitVal(s[2])) * 60
        + DigitVal(s[4]) * 10 + DigitVal(s[5])

\* A text "HH:MM-HH:MM": a window, or a slot.
WellFormedWindow(w) ==
    /\ Len(w) = 11
    /\ w[6] = "-"
    /\ WellFormedTime(SubSeq(w, 1, 5))
    /\ WellFormedTime(SubSeq(w, 7, 11))

StartOf(w) == MinuteOfDay(SubSeq(w, 1, 5))

EndOf(w) == MinuteOfDay(SubSeq(w, 7, 11))

\* A well-formed window whose start is before its end.
ProperWindow(w) == WellFormedWindow(w) /\ StartOf(w) < EndOf(w)

\* The slot lists that the dividers have made of availabilityTime so far.
Divisions ==
    (IF "divideSlots" \in divided THEN {timeSlots} ELSE {})
    \cup (IF "divideAvailableSlots" \in divided THEN {availableSlots} ELSE {})

\* C12: of a well-formed window with start before end, each divider makes
\* slots "HH:MM-HH:MM" in ascending order, the first starting at the
\* window's start, every slot 30 minutes long and every next slot starting
\* where the one before it ends; of 09:00-10:00 it makes exactly
\* 09:00-09:30 and 09:30-10:00.
C12_SlotsTileFromStart ==
    ProperWindow(availabilityTime) =>
        \A slots \in Divisions :
            /\ slots # <<>>
            /\ \A i \in 1..Len(slots) :
                  /\ WellFormedWindow(slots[i])
                  /\ (EndOf(slots[i]) - StartOf(slots[i])) % (24 * 60) = Interval
            /\ StartOf(slots[1]) = StartOf(availabilityTime)
            /\ \A i \in 1..(Len(slots) - 1) :
                  /\ StartOf(slots[i + 1]) = EndOf(slots[i])
                  /\ StartOf(slots[i]) < StartOf(slots[i + 1])
            /\ availabilityTime = W0900_1000
                  => slots = <<S0900_0930, S0930_1000>>

\* Both dividers have made the two slots of 09:00-10:00.
C12_Witness ==
    /\ availabilityTime = W0900_1000
    /\ divided = {"divideSlots", "divideAvailableSlots"}
    /\ timeSlots = <<S0900_0930, S0930_1000>>
    /\ availableSlots = timeSlots

\* C13: of a well-formed window with start before end, no slot ends after
\* the window's end, the remainder shorter than 30 minutes being dropped;
\* of 09:00-09:45 the dividers make exactly 09:00-09:30.
C13_RemainderDropped ==
    ProperWindow(availabilityTime) =>
        \A slots \in Divisions :
            /\ \A i \in 1..Len(slots) :
                  StartOf(slots[i]) + Interval <= EndOf(availabilityTime)
            /\ availabilityTime = HHMM(9, 0) \o <<"-">> \o HHMM(9, 45)
                  => slots = <<S0900_0930>>

\* A string that is no window: not two parts around one "-", a part that
\* time.Parse rejects once the white space around it is trimmed, or a
\* start that is not before the end.
Malformed(w) ==
    LET parts == Split(w)
    IN  \/ Len(parts) # 2
        \/ timeParse(TrimSpace(parts[1])).err
        \/ timeParse(TrimSpace(parts[2])).err
        \/ timeParse(TrimSpace(parts[1])).t >= timeParse(TrimSpace(parts[2])).t

\* C14: of a string that is no window, both dividers make no slot.
C14_MalformedYieldsNoSlots ==
    Malformed(availabilityTime) => \A slots \in Divisions : slots = <<>>

\* C19: the two dividers make the same slots of every availability string,
\* with white space around the times or not, so that every slot of the read
\* path is among the slots of the write path.
C19_PathsAgree ==
    divided = {"divideSlots", "divideAvailableSlots"} =>
        /\ timeSlots = availableSlots
        /\ {timeSlots[i] : i \in 1..Len(timeSlots)}
               \subseteq {availableSlots[i] : i \in 1..Len(availableSlots)}

\* ------------------------------------------ properties of double booking

\* C18: the store never holds two paid appointments of one doctor, date and
\* time slot.
C18_NoTwoPaidForOneSlot ==
    \A a \in appointments : \A b \in appointments :
        (/\ a.PaymentStatus = "paid"
         /\ b.PaymentStatus = "paid"
         /\ a.DoctorID = b.DoctorID
         /\ a.AppointmentDate = b.AppointmentDate
         /\ a.AppointmentTimeSlot = b.AppointmentTimeSlot)
            => a = b

\* C20: a run of BookAppointment is answered 200 only for a slot that
\* GetAvailableTimeSlots lists for the doctor and date in the state in
\* which the run began; a slot that a pending appointment hides from the
\* list cannot be booked.
C20_BookedOnlyIfListed ==
    [][\A day \in RequestedDays : \A slot \in TimeSlots :
          (/\ op' = "BookAppointment"
           /\ response'.status = 200
           /\ request'.DoctorID = day[1]
           /\ request'.AppointmentDate = day[2]
           /\ request'.AppointmentTimeSlot = slot)
              => LET listed == SlotsResult(day[1], day[2], "none").slots
                 IN  \E i \in 1..Len(listed) : listed[i] = slot
      ]_vars

====
